---------------------------- MODULE Spec2Model ----------------------------
(***************************************************************************)
(* Outline extraction of process_pdfs.py: the rule-based pipeline of       *)
(* process_pdf (header/footer detection, table exclusion, line admission,  *)
(* title identification, body-style deduction, heading candidates, level   *)
(* assignment, fragment merging) and the batch driver process_all_pdfs.    *)
(*                                                                         *)
(* Representation.                                                         *)
(*   - A text is a sequence of one-character strings; strip, split, lower, *)
(*     join and the regular expressions are computed character by          *)
(*     character.                                                          *)
(*   - Coordinates and page sizes are integers.  Every comparison the code *)
(*     makes against a float product (h * 0.20, size * 0.5, n * 0.4, ...)  *)
(*     is written in cross-multiplied integer form; on integer operands    *)
(*     below 200 the two agree with IEEE doubles.                          *)
(*   - A span's size is kept in half points (size_x2) so that round() of   *)
(*     get_dominant_style has something to round.                          *)
(*   - A document is what the layout provider yields: pages with width,    *)
(*     height, text blocks (lines of spans) and detected table boxes.      *)
(***************************************************************************)
EXTENDS Integers, Sequences, FiniteSets, TLC

VARIABLES
    pc,                    \* position in process_pdf
    doc,                   \* the document behind pdf_path
    handle,                \* the provider's handle: "none", "open", "closed"
    ignored_texts,         \* set of texts (line 123)
    table_areas,           \* page index -> sequence of table boxes (dict, line 125)
    page_num,              \* loop variable of the extraction loop (line 138)
    all_lines,             \* sequence of line records (line 134)
    style_counts,          \* Counter, insertion ordered (line 135)
    doc_title,             \* line 199
    title_line_ids,        \* line 200
    body_style,            \* line 246
    page_0_has_paragraphs, \* line 254
    initial_candidates,    \* line 265
    sorted_headings,       \* refined_headings, then sorted (lines 287-298)
    i,                     \* outer index of the merge walk (line 300)
    outline,               \* line 299
    fragments,             \* history: per outline entry, the lines merged into it
    result,                \* the returned object, or "none" / "raised"
    files,                 \* os.listdir(input_dir) (line 328)
    file_idx,              \* position of the batch loop in files
    written,               \* indices of files whose JSON output was written
    batch_pc               \* position in process_all_pdfs

vars == <<pc, doc, handle, ignored_texts, table_areas, page_num, all_lines,
          style_counts, doc_title, title_line_ids, body_style,
          page_0_has_paragraphs, initial_candidates, sorted_headings, i,
          outline, fragments, result, files, file_idx, written, batch_pc>>

pdf_vars == <<pc, handle, ignored_texts, table_areas, page_num, all_lines,
              style_counts, doc_title, title_line_ids, body_style,
              page_0_has_paragraphs, initial_candidates, sorted_headings, i,
              outline, fragments, result>>

-----------------------------------------------------------------------------
(* Integers *)

Abs(n) == IF n < 0 THEN -n ELSE n

SetMin(S) == CHOOSE x \in S : \A y \in S : x <= y

SetMax(S) == CHOOSE x \in S : \A y \in S : y <= x

Range(s) == {s[k] : k \in 1..Len(s)}

\* Python 3 round() on a value given in half units: ties go to the even integer.
PyRound(h) ==
    IF h % 2 = 0 THEN h \div 2
    ELSE LET f == (h - 1) \div 2 IN IF f % 2 = 0 THEN f ELSE f + 1

-----------------------------------------------------------------------------
(* Characters and str methods *)

UpperSeq == <<"A","B","C","D","E","F","G","H","I","J","K","L","M",
              "N","O","P","Q","R","S","T","U","V","W","X","Y","Z">>

LowerSeq == <<"a","b","c","d","e","f","g","h","i","j","k","l","m",
              "n","o","p","q","r","s","t","u","v","w","x","y","z">>

Digits == {"0","1","2","3","4","5","6","7","8","9"}

IsSpace(c) == c \in {" ", "\n", "\t"}

IsUpper(c) == c \in Range(UpperSeq)

IsAlpha(c) == c \in Range(UpperSeq) \cup Range(LowerSeq)

IsDigit(c) == c \in Digits

\* \w of the re module
IsWordChar(c) == IsAlpha(c) \/ IsDigit(c) \/ c = "_"

LowerChar(c) ==
    IF IsUpper(c) THEN LowerSeq[CHOOSE k \in 1..26 : UpperSeq[k] = c] ELSE c

\* str.lower()
Lower(s) == [k \in 1..Len(s) |-> LowerChar(s[k])]

\* str.strip()
Strip(s) ==
    LET keep == {k \in 1..Len(s) : ~IsSpace(s[k])}
    IN  IF keep = {} THEN <<>> ELSE SubSeq(s, SetMin(keep), SetMax(keep))

\* str.replace('\n', ' ')
ReplaceNewlines(s) == [k \in 1..Len(s) |-> IF s[k] = "\n" THEN " " ELSE s[k]]

\* len(s.split())
WordCount(s) ==
    Cardinality({k \in 1..Len(s) : ~IsSpace(s[k]) /\ (k = 1 \/ IsSpace(s[k-1]))})

\* s.endswith(c)
EndsWith(s, chars) == Len(s) > 0 /\ s[Len(s)] \in chars

\* sub in s
Contains(s, sub) ==
    \E k \in 1..(Len(s) - Len(sub) + 1) : SubSeq(s, k, k + Len(sub) - 1) = sub

AllIn(s, a, b, P(_)) == \A k \in a..b : P(s[k])

\* re.search(r'\b\d{4}\b', s)
HasFourDigitNumber(s) ==
    \E k \in 1..(Len(s) - 3) :
        /\ AllIn(s, k, k + 3, IsDigit)
        /\ (k = 1 \/ ~IsWordChar(s[k-1]))
        /\ (k + 4 > Len(s) \/ ~IsWordChar(s[k+4]))

Months == { <<"j","a","n">>, <<"f","e","b">>, <<"m","a","r">>, <<"a","p","r">>,
            <<"m","a","y">>, <<"j","u","n">>, <<"j","u","l">>, <<"a","u","g">>,
            <<"s","e","p">>, <<"o","c","t">>, <<"n","o","v">>, <<"d","e","c">> }

\* lines 157-163: the date-line test
IsDateLine(line_text) ==
    LET text_lower == Lower(line_text)
    IN  /\ HasFourDigitNumber(text_lower)
        /\ \E month \in Months : Contains(text_lower, month)
        /\ WordCount(line_text) <= 4

\* re.match(r'^Page \d+\s*of\s*\d+$', s, re.I), s stripped
IsPageOfLine(s) ==
    LET t == Lower(s)
        n == Len(t)
    IN  /\ n >= 5
        /\ SubSeq(t, 1, 5) = <<"p","a","g","e"," ">>
        /\ \E a \in 6..n : \E b \in a..n : \E c \in (b + 2)..n :
              /\ AllIn(t, 6, a, IsDigit)
              /\ AllIn(t, a + 1, b, IsSpace)
              /\ b + 2 <= n /\ SubSeq(t, b + 1, b + 2) = <<"o","f">>
              /\ AllIn(t, b + 3, c, IsSpace)
              /\ c < n
              /\ AllIn(t, c + 1, n, IsDigit)

\* re.fullmatch(r"[\d\W_]+", s)
IsOnlyDigitsAndPunctuation(s) ==
    Len(s) > 0 /\ \A k \in 1..Len(s) : ~IsAlpha(s[k])

\* lines 76-84
is_mostly_uppercase(s) ==
    LET letters == {k \in 1..Len(s) : IsAlpha(s[k])}
        uppercase_letters == {k \in letters : IsUpper(s[k])}
    IN  IF letters = {} THEN FALSE
        ELSE 10 * Cardinality(uppercase_letters) > 8 * Cardinality(letters)

\* " ".join(texts)
RECURSIVE JoinSpace(_)
JoinSpace(texts) ==
    IF Len(texts) = 0 THEN <<>>
    ELSE IF Len(texts) = 1 THEN texts[1]
    ELSE texts[1] \o <<" ">> \o JoinSpace(Tail(texts))

\* "".join(texts)
RECURSIVE Concat(_)
Concat(texts) ==
    IF Len(texts) = 0 THEN <<>> ELSE texts[1] \o Concat(Tail(texts))

-----------------------------------------------------------------------------
(* Sequences *)

\* sorted(s, key=...): stable; Less is the strict order of the keys.  Element k
\* goes to the position that counts the elements sorted before it.
Sorted(s, Less(_, _)) ==
    LET rank(k) == 1 + Cardinality({j \in 1..Len(s) :
                        Less(s[j], s[k]) \/ (~Less(s[k], s[j]) /\ j < k)})
    IN  [r \in 1..Len(s) |-> s[CHOOSE k \in 1..Len(s) : rank(k) = r]]

-----------------------------------------------------------------------------
(* The layout provider's views of a page *)

Span(text, font, size_x2) == [text |-> text, font |-> font, size_x2 |-> size_x2]

Line(x0, y0, x1, y1, spans) == [bbox |-> <<x0, y0, x1, y1>>, spans |-> spans]

Block(lines) == [lines |-> lines]

Page(width, height, blocks, tables) ==
    [width |-> width, height |-> height, blocks |-> blocks, tables |-> tables]

Document(pages, fault) == [pages |-> pages, fault |-> fault]

\* "".join(span["text"] for span in line["spans"])
SpanTexts(line) == Concat([k \in 1..Len(line.spans) |-> line.spans[k].text])

\* page.get_text("blocks"): per block (x0, y0, x1, y1, text); the box encloses the
\* block's lines and the text is its lines, each ended by a newline.
BlockTuple(block) ==
    LET ls == block.lines
        n  == Len(ls)
    IN  [x0 |-> SetMin({ls[k].bbox[1] : k \in 1..n}),
         y0 |-> SetMin({ls[k].bbox[2] : k \in 1..n}),
         x1 |-> SetMax({ls[k].bbox[3] : k \in 1..n}),
         y1 |-> SetMax({ls[k].bbox[4] : k \in 1..n}),
         text |-> Concat([k \in 1..n |-> SpanTexts(ls[k]) \o <<"\n">>])]

GetTextBlocks(page) == [k \in 1..Len(page.blocks) |-> BlockTuple(page.blocks[k])]

\* page.get_text("dict")["blocks"], flattened in block and line order
GetTextLines(page) == Concat([k \in 1..Len(page.blocks) |-> page.blocks[k].lines])

-----------------------------------------------------------------------------
(* collections.Counter, kept in insertion order *)

CounterKeys(c) == {c[k].key : k \in 1..Len(c)}

CounterGet(c, key) ==
    IF key \in CounterKeys(c)
    THEN c[CHOOSE k \in 1..Len(c) : c[k].key = key].n
    ELSE 0

\* c[key] += n
CounterAdd(c, key, n) ==
    IF key \in CounterKeys(c)
    THEN [k \in 1..Len(c) |-> IF c[k].key = key THEN [key |-> key, n |-> c[k].n + n] ELSE c[k]]
    ELSE Append(c, [key |-> key, n |-> n])

\* c.most_common(1)[0][0]: the first key, in insertion order, of maximal count
MostCommon(c) ==
    c[SetMin({k \in 1..Len(c) : \A m \in 1..Len(c) : c[m].n <= c[k].n})].key

-----------------------------------------------------------------------------
(* Helpers of process_pdfs.py *)

\* line 29: the block reaches into the top 20% or the bottom 15% of the page
InHeaderFooterBand(b, page_height) ==
    100 * b.y0 < 20 * page_height \/ 100 * b.y1 > 85 * page_height

\* lines 30-31: the text a block is counted under, if it is counted
NormalizedBlockText(b) == ReplaceNewlines(Strip(b.text))

IsCountedText(line_text) ==
    5 < Len(line_text) /\ Len(line_text) < 100 /\ ~EndsWith(line_text, {"."})

\* lines 20-23: the scanned page indices (0-based)
ScannedPages(page_count) ==
    LET start_page == page_count \div 4
        end_page == page_count - start_page
    IN  start_page..(end_page - 1)

\* lines 23-32: text_counts[text], one count per block
TextCount(d, text) ==
    LET hits(p) ==
            LET page == d.pages[p + 1]
                blocks == GetTextBlocks(page)
            IN  {k \in 1..Len(blocks) :
                    /\ InHeaderFooterBand(blocks[k], page.height)
                    /\ NormalizedBlockText(blocks[k]) = text
                    /\ IsCountedText(text)}
        RECURSIVE Sum(_)
        Sum(P) == IF P = {} THEN 0
                  ELSE LET p == CHOOSE q \in P : TRUE
                       IN  Cardinality(hits(p)) + Sum(P \ {p})
    IN  Sum(ScannedPages(Len(d.pages)))

\* every text a block of the document yields under lines 30
BlockTexts(d) ==
    UNION {{NormalizedBlockText(GetTextBlocks(d.pages[p])[k]) :
               k \in 1..Len(d.pages[p].blocks)} : p \in 1..Len(d.pages)}

\* lines 10-42
detect_headers_and_footers(d) ==
    LET page_count == Len(d.pages)
        scanned == Cardinality(ScannedPages(page_count))
    IN  IF page_count < 4 THEN {}
        ELSE {text \in BlockTexts(d) :
                 /\ TextCount(d, text) > 0
                 /\ 10 * TextCount(d, text) >= 4 * scanned}

\* mutant: containment with strict comparisons
BoxInside_Strict(l, t) == l[1] > t[1] /\ l[2] > t[2] /\ l[3] < t[3] /\ l[4] < t[4]

\* line 53
BoxInside(l, t) == l[1] >= t[1] /\ l[2] >= t[2] /\ l[3] <= t[3] /\ l[4] <= t[4]

\* lines 44-55
is_line_in_table(line_bbox, page_table_areas) ==
    IF Len(page_table_areas) = 0 THEN FALSE
    ELSE \E k \in 1..Len(page_table_areas) : BoxInside(line_bbox, page_table_areas[k])

\* line 68: re.search(r'bold|black|heavy', font, re.IGNORECASE)
IsBoldFont(font) ==
    LET f == Lower(font)
    IN  \/ Contains(f, <<"b","o","l","d">>)
        \/ Contains(f, <<"b","l","a","c","k">>)
        \/ Contains(f, <<"h","e","a","v","y">>)

\* lines 57-74
get_dominant_style(line) ==
    LET RECURSIVE Tally(_, _)
        Tally(k, counts) ==
            IF k > Len(line.spans) THEN counts
            ELSE LET span == line.spans[k]
                     style == <<PyRound(span.size_x2), IsBoldFont(span.font)>>
                 IN  Tally(k + 1, CounterAdd(counts, style, Len(Strip(span.text))))
    IN  IF Len(line.spans) = 0 THEN <<10, FALSE>>
        ELSE MostCommon(Tally(1, <<>>))

\* lines 86-116
get_page_layout(page) ==
    LET blocks == GetTextBlocks(page)
        left_blocks == Cardinality({k \in 1..Len(blocks) : 2 * blocks[k].x1 < page.width})
        right_blocks == Cardinality({k \in 1..Len(blocks) :
                            ~(2 * blocks[k].x1 < page.width) /\ 2 * blocks[k].x0 > page.width})
        total_sided_blocks == left_blocks + right_blocks
    IN  IF Len(blocks) = 0 THEN 1
        ELSE IF total_sided_blocks = 0 THEN 1
        ELSE IF /\ left_blocks > 0 /\ right_blocks > 0
                /\ 10 * left_blocks > 3 * total_sided_blocks
                /\ 10 * right_blocks > 3 * total_sided_blocks
             THEN 2
        ELSE 1

-----------------------------------------------------------------------------
(* process_pdf, lines 118-317: the pure parts of each step *)

\* lines 125-129: the dict holds only the pages on which tables were found
TableAreasOf(d) ==
    [p \in {q \in 0..(Len(d.pages) - 1) : Len(d.pages[q + 1].tables) > 0}
        |-> d.pages[p + 1].tables]

\* line 141: table_areas.get(page_num, [])
PageTableBoxes(areas, p) == IF p \in DOMAIN areas THEN areas[p] ELSE <<>>

\* mutant: the ignore set is not consulted
IsAdmitted_NoIgnoreSet(line, page_table_bboxes, ignored) ==
    LET line_text == Strip(SpanTexts(line))
    IN  /\ Len(line.spans) > 0
        /\ ~is_line_in_table(line.bbox, page_table_bboxes)
        /\ line_text # <<>>
        /\ ~IsDateLine(line_text)
        /\ ~IsPageOfLine(line_text)

\* lines 150-164: whether a line of the page is admitted to all_lines
IsAdmitted(line, page_table_bboxes, ignored) ==
    LET line_text == Strip(SpanTexts(line))
    IN  /\ Len(line.spans) > 0
        /\ ~is_line_in_table(line.bbox, page_table_bboxes)
        /\ line_text # <<>>
        /\ line_text \notin ignored
        /\ ~IsDateLine(line_text)
        /\ ~IsPageOfLine(line_text)

\* line 186: f"{page_num}-{y0}"; the formatted string determines the pair and
\* is determined by it, so the pair stands for it
LineId(p, y0) == <<p, y0>>

\* lines 166-187: the record appended for an admitted line
LineRecord(line, p, num_columns, page_width) ==
    LET style == get_dominant_style(line)
        column_index ==
            IF num_columns = 2 /\ line.bbox[1] + line.bbox[3] > page_width
            THEN 1 ELSE 0
    IN  [page |-> p,
         text |-> Strip(SpanTexts(line)),
         style |-> style,
         is_bold |-> style[2],
         size |-> style[1],
         x0 |-> line.bbox[1],
         y0 |-> line.bbox[2],
         x1 |-> line.bbox[3],
         y1 |-> line.bbox[4],
         column |-> column_index,
         id |-> LineId(p, line.bbox[2])]

\* lines 138-187 for one page: the records appended, in order
PageRecords(d, p, areas, ignored) ==
    LET page == d.pages[p + 1]
        num_columns == get_page_layout(page)
        lines == GetTextLines(page)
        RECURSIVE Walk(_)
        Walk(k) ==
            IF k > Len(lines) THEN <<>>
            ELSE IF IsAdmitted(lines[k], PageTableBoxes(areas, p), ignored)
                 THEN <<LineRecord(lines[k], p, num_columns, page.width)>> \o Walk(k + 1)
                 ELSE Walk(k + 1)
    IN  Walk(1)

\* line 167 over the records of a page
RECURSIVE CountStyles(_, _)
CountStyles(counts, records) ==
    IF Len(records) = 0 THEN counts
    ELSE CountStyles(CounterAdd(counts, records[1].style, 1), Tail(records))

\* key of line 196: (column, y0)
TitleOrderLess(a, b) ==
    a.column < b.column \/ (a.column = b.column /\ a.y0 < b.y0)

\* lines 193-197
Page0LinesTopHalf(lines, page_0_height) ==
    LET top(l) == l.page = 0 /\ 2 * l.y0 < page_0_height
    IN  Sorted(SelectSeq(lines, top), TitleOrderLess)

\* mutant: a title is only made of two bold, centred lines
TitleByBoldCentered_NeedsTwo(top_half, page_width) ==
    LET centered_bold(l) ==
            l.is_bold /\ 10 * Abs(l.x0 + l.x1 - page_width) < 2 * page_width
        centered_bold_lines == SelectSeq(top_half, centered_bold)
        taken == IF Len(centered_bold_lines) > 1
                 THEN SubSeq(centered_bold_lines, 1, 2)
                 ELSE <<>>
    IN  [title |-> JoinSpace([k \in 1..Len(taken) |-> taken[k].text]),
         ids |-> {taken[k].id : k \in 1..Len(taken)}]

\* lines 209-221: the fallback for near-uniform sizes, bold and centered lines
TitleByBoldCentered(top_half, page_width) ==
    LET centered_bold(l) ==
            l.is_bold /\ 10 * Abs(l.x0 + l.x1 - page_width) < 2 * page_width
        centered_bold_lines == SelectSeq(top_half, centered_bold)
        taken == IF Len(centered_bold_lines) > 1
                 THEN SubSeq(centered_bold_lines, 1, 2)
                 ELSE centered_bold_lines
    IN  [title |-> JoinSpace([k \in 1..Len(taken) |-> taken[k].text]),
         ids |-> {taken[k].id : k \in 1..Len(taken)}]

\* lines 223-236: accumulate from the first line of the largest size
TitleByLargestSize(top_half, max_size) ==
    LET start_index == SetMin({k \in 1..Len(top_half) : top_half[k].size = max_size})
        first_title_line == top_half[start_index]
        RECURSIVE Accumulate(_, _)
        Accumulate(k, taken) ==
            IF k > Len(top_half) \/ Len(taken) >= 2 THEN taken
            ELSE LET current_line == top_half[k]
                     last_line == taken[Len(taken)]
                 IN  IF /\ Len(taken) > 0
                        /\ \/ 2 * Abs(current_line.y0 - last_line.y0) > 5 * last_line.size
                           \/ 10 * current_line.size < 7 * first_title_line.size
                     THEN taken
                     ELSE Accumulate(k + 1, Append(taken, current_line))
        taken == Accumulate(start_index, <<>>)
    IN  [title |-> JoinSpace([k \in 1..Len(taken) |-> taken[k].text]),
         ids |-> {taken[k].id : k \in 1..Len(taken)}]

\* lines 199-238
IdentifyTitleOf(lines, d) ==
    LET top_half == Page0LinesTopHalf(lines, d.pages[1].height)
        sizes == {top_half[k].size : k \in 1..Len(top_half)}
    IN  IF Len(top_half) = 0 THEN [title |-> <<>>, ids |-> {}]
        ELSE IF SetMax(sizes) - SetMin(sizes) < 1
             THEN TitleByBoldCentered(top_half, d.pages[1].width)
             ELSE TitleByLargestSize(top_half, SetMax(sizes))

\* mutant: the title lines are not taken out of the corpus
ExcludeTitle_KeepsAll(lines, ids) == lines

\* line 242
ExcludeTitle(lines, ids) ==
    LET kept(l) == l.id \notin ids
    IN  SelectSeq(lines, kept)

\* lines 245-250
DeduceBodyStyleOf(counts) ==
    LET non_bold(e) == ~e.key[2]
        non_bold_counts == SelectSeq(counts, non_bold)
    IN  IF Len(non_bold_counts) > 0 THEN MostCommon(non_bold_counts)
        ELSE IF Len(counts) > 0 THEN MostCommon(counts)
        ELSE <<10, FALSE>>

\* lines 254-260
Page0HasParagraphs(lines, body) ==
    \E k \in 1..Len(lines) :
        /\ lines[k].page = 0
        /\ lines[k].style = body
        /\ WordCount(lines[k].text) >= 30
        /\ ~is_mostly_uppercase(lines[k].text)
        /\ Len(lines[k].text) > 30

\* lines 267-274
IsCandidate(line, body, has_paragraphs) ==
    /\ ~(~has_paragraphs /\ line.page = 0)
    /\ (line.size > body[1] \/ (line.is_bold /\ ~body[2]))
    /\ 3 < Len(line.text) /\ Len(line.text) < 250
    /\ ~(WordCount(line.text) > 25)
    /\ ~IsOnlyDigitsAndPunctuation(line.text)
    /\ ~(EndsWith(line.text, {".", ",", ";"}) /\ WordCount(line.text) > 15)

\* lines 265-275
FilterCandidates(lines, body, has_paragraphs) ==
    LET ok(l) == IsCandidate(l, body, has_paragraphs)
    IN  SelectSeq(lines, ok)

\* mutant: at equal size the non-bold style comes first
StyleRankLess_NonBoldFirst(s, t) == s[1] > t[1] \/ (s[1] = t[1] /\ ~s[2] /\ t[2])

\* key of line 281: (-size, -bold)
StyleRankLess(s, t) == s[1] > t[1] \/ (s[1] = t[1] /\ s[2] /\ ~t[2])

\* line 281: the distinct styles, best first
HeadingStyles(cands) ==
    LET styles == {cands[k].style : k \in 1..Len(cands)}
    IN  [r \in 1..Cardinality(styles) |->
            CHOOSE s \in styles :
                Cardinality({t \in styles : StyleRankLess(t, s)}) = r - 1]

\* line 282: f"H{i+1}" for i in 0..2
LevelNames == <<"H1", "H2", "H3">>

\* line 282: heading_styles[:3] numbered H1..H3
StyleToLevel(heading_styles) ==
    LET n == IF Len(heading_styles) < 3 THEN Len(heading_styles) ELSE 3
    IN  [s \in {heading_styles[k] : k \in 1..n} |->
            LevelNames[CHOOSE k \in 1..n : heading_styles[k] = s]]

\* lines 287-295
RefinedHeadings(cands, has_paragraphs) ==
    LET style_to_level == StyleToLevel(HeadingStyles(cands))
        levelled(l) == l.style \in DOMAIN style_to_level
        kept(l) == has_paragraphs \/ l.page # 0
        with_level == [k \in 1..Len(cands) |->
            [page |-> cands[k].page, text |-> cands[k].text, style |-> cands[k].style,
             is_bold |-> cands[k].is_bold, size |-> cands[k].size,
             x0 |-> cands[k].x0, y0 |-> cands[k].y0, x1 |-> cands[k].x1,
             y1 |-> cands[k].y1, column |-> cands[k].column, id |-> cands[k].id,
             level |-> IF levelled(cands[k]) THEN style_to_level[cands[k].style] ELSE "None"]]
        has_level(l) == l.level # "None"
    IN  SelectSeq(SelectSeq(with_level, has_level), kept)

\* key of line 298: (page, column, y0)
ReadingOrderLess(a, b) ==
    \/ a.page < b.page
    \/ (a.page = b.page /\ a.column < b.column)
    \/ (a.page = b.page /\ a.column = b.column /\ a.y0 < b.y0)

\* mutant: the gap is measured from the top edge of the entry before
JoinsRun_FromTopEdge(headings, current, j) ==
    LET next_line == headings[j + 1]
    IN  /\ next_line.page = current.page
        /\ next_line.column = current.column
        /\ next_line.style = current.style
        /\ 2 * Abs(next_line.y0 - headings[j].y0) < current.size

\* lines 306-308: whether the entry at j (0-based) joins the run of current
JoinsRun(headings, current, j) ==
    LET next_line == headings[j + 1]
    IN  /\ next_line.page = current.page
        /\ next_line.column = current.column
        /\ next_line.style = current.style
        /\ 2 * Abs(next_line.y0 - headings[j].y1) < current.size

\* lines 302-313: the inner loop from position j (0-based); current is the entry
\* at start, the same object as headings[start], so its changes show there
RECURSIVE MergeRun(_, _, _)
MergeRun(headings, start, j) ==
    LET current == headings[start + 1]
    IN  IF j < Len(headings) /\ JoinsRun(headings, current, j)
        THEN MergeRun([headings EXCEPT ![start + 1] =
                          [current EXCEPT !.text = current.text \o <<" ">> \o headings[j + 1].text,
                                          !.y1 = headings[j + 1].y1]],
                      start, j + 1)
        ELSE [headings |-> headings, j |-> j]

\* line 314
OutlineEntry(current) ==
    [level |-> current.level, text |-> Strip(current.text), page |-> current.page]

-----------------------------------------------------------------------------
(* process_pdf, lines 118-317: the steps *)

NoResult == "none"

Raised == "raised"

batch_vars == <<files, file_idx, written, batch_pc>>

\* line 122: fitz.open succeeds
Open ==
    /\ pc = "open"
    /\ doc.fault # "open"
    /\ handle' = "open"
    /\ pc' = "detect"
    /\ UNCHANGED <<doc, ignored_texts, table_areas, page_num, all_lines, style_counts,
                   doc_title, title_line_ids, body_style, page_0_has_paragraphs,
                   initial_candidates, sorted_headings, i, outline, fragments, result>>
    /\ UNCHANGED batch_vars

\* line 122: fitz.open raises; no handle was obtained
OpenFails ==
    /\ pc = "open"
    /\ doc.fault = "open"
    /\ pc' = "raised"
    /\ result' = Raised
    /\ UNCHANGED <<doc, handle, ignored_texts, table_areas, page_num, all_lines,
                   style_counts, doc_title, title_line_ids, body_style,
                   page_0_has_paragraphs, initial_candidates, sorted_headings, i,
                   outline, fragments>>
    /\ UNCHANGED batch_vars

\* line 123
DetectHeadersAndFooters ==
    /\ pc = "detect"
    /\ ignored_texts' = detect_headers_and_footers(doc)
    /\ pc' = "tables"
    /\ UNCHANGED <<doc, handle, table_areas, page_num, all_lines, style_counts,
                   doc_title, title_line_ids, body_style, page_0_has_paragraphs,
                   initial_candidates, sorted_headings, i, outline, fragments, result>>
    /\ UNCHANGED batch_vars

\* lines 125-129
FindTables ==
    /\ pc = "tables"
    /\ doc.fault # "find_tables"
    /\ table_areas' = TableAreasOf(doc)
    /\ page_num' = 0
    /\ pc' = "extract"
    /\ UNCHANGED <<doc, handle, ignored_texts, all_lines, style_counts,
                   doc_title, title_line_ids, body_style, page_0_has_paragraphs,
                   initial_candidates, sorted_headings, i, outline, fragments, result>>
    /\ UNCHANGED batch_vars

\* line 127: the provider raises while the document is analysed; nothing in
\* process_pdf catches it
FindTablesFails ==
    /\ pc = "tables"
    /\ doc.fault = "find_tables"
    /\ pc' = "raised"
    /\ result' = Raised
    /\ UNCHANGED <<doc, handle, ignored_texts, table_areas, page_num, all_lines,
                   style_counts, doc_title, title_line_ids, body_style,
                   page_0_has_paragraphs, initial_candidates, sorted_headings, i,
                   outline, fragments>>
    /\ UNCHANGED batch_vars

\* lines 138-187, one page
ExtractPage ==
    /\ pc = "extract"
    /\ page_num < Len(doc.pages)
    /\ LET records == PageRecords(doc, page_num, table_areas, ignored_texts)
       IN  /\ all_lines' = all_lines \o records
           /\ style_counts' = CountStyles(style_counts, records)
    /\ page_num' = page_num + 1
    /\ pc' = IF page_num + 1 < Len(doc.pages) THEN "extract" ELSE "extracted"
    /\ UNCHANGED <<doc, handle, ignored_texts, table_areas,
                   doc_title, title_line_ids, body_style, page_0_has_paragraphs,
                   initial_candidates, sorted_headings, i, outline, fragments, result>>
    /\ UNCHANGED batch_vars

\* lines 189-190
ReturnNoLines ==
    /\ pc = "extracted"
    /\ all_lines = <<>>
    /\ result' = [title |-> <<>>, outline |-> <<>>]
    /\ pc' = "returned"
    /\ UNCHANGED <<doc, handle, ignored_texts, table_areas, page_num, all_lines,
                   style_counts, doc_title, title_line_ids, body_style,
                   page_0_has_paragraphs, initial_candidates, sorted_headings, i,
                   outline, fragments>>
    /\ UNCHANGED batch_vars

\* lines 192-238
IdentifyTitle ==
    /\ pc = "extracted"
    /\ all_lines # <<>>
    /\ LET t == IdentifyTitleOf(all_lines, doc)
       IN  /\ doc_title' = t.title
           /\ title_line_ids' = t.ids
    /\ pc' = "exclude_title"
    /\ UNCHANGED <<doc, handle, ignored_texts, table_areas, page_num, all_lines,
                   style_counts, body_style, page_0_has_paragraphs,
                   initial_candidates, sorted_headings, i, outline, fragments, result>>
    /\ UNCHANGED batch_vars

\* lines 240-242
ExcludeTitleLines ==
    /\ pc = "exclude_title"
    /\ all_lines' = IF title_line_ids # {} THEN ExcludeTitle(all_lines, title_line_ids)
                    ELSE all_lines
    /\ pc' = "body_style"
    /\ UNCHANGED <<doc, handle, ignored_texts, table_areas, page_num, style_counts,
                   doc_title, title_line_ids, body_style, page_0_has_paragraphs,
                   initial_candidates, sorted_headings, i, outline, fragments, result>>
    /\ UNCHANGED batch_vars

\* lines 245-262
DeduceBodyStyle ==
    /\ pc = "body_style"
    /\ body_style' = DeduceBodyStyleOf(style_counts)
    /\ page_0_has_paragraphs' = Page0HasParagraphs(all_lines, body_style')
    /\ pc' = "candidates"
    /\ UNCHANGED <<doc, handle, ignored_texts, table_areas, page_num, all_lines,
                   style_counts, doc_title, title_line_ids,
                   initial_candidates, sorted_headings, i, outline, fragments, result>>
    /\ UNCHANGED batch_vars

\* lines 265-275
FilterInitialCandidates ==
    /\ pc = "candidates"
    /\ initial_candidates' = FilterCandidates(all_lines, body_style, page_0_has_paragraphs)
    /\ pc' = "filtered"
    /\ UNCHANGED <<doc, handle, ignored_texts, table_areas, page_num, all_lines,
                   style_counts, doc_title, title_line_ids, body_style,
                   page_0_has_paragraphs, sorted_headings, i, outline, fragments, result>>
    /\ UNCHANGED batch_vars

\* lines 277-278
ReturnNoCandidates ==
    /\ pc = "filtered"
    /\ initial_candidates = <<>>
    /\ result' = [title |-> doc_title, outline |-> <<>>]
    /\ pc' = "returned"
    /\ UNCHANGED <<doc, handle, ignored_texts, table_areas, page_num, all_lines,
                   style_counts, doc_title, title_line_ids, body_style,
                   page_0_has_paragraphs, initial_candidates, sorted_headings, i,
                   outline, fragments>>
    /\ UNCHANGED batch_vars

\* lines 280-300
AssignLevels ==
    /\ pc = "filtered"
    /\ initial_candidates # <<>>
    /\ sorted_headings' =
           Sorted(RefinedHeadings(initial_candidates, page_0_has_paragraphs),
                  ReadingOrderLess)
    /\ outline' = <<>>
    /\ fragments' = <<>>
    /\ i' = 0
    /\ pc' = "merge"
    /\ UNCHANGED <<doc, handle, ignored_texts, table_areas, page_num, all_lines,
                   style_counts, doc_title, title_line_ids, body_style,
                   page_0_has_paragraphs, initial_candidates, result>>
    /\ UNCHANGED batch_vars

\* lines 301-315, one pass of the outer loop
MergeStep ==
    /\ pc = "merge"
    /\ i < Len(sorted_headings)
    /\ LET run == MergeRun(sorted_headings, i, i + 1)
           current == run.headings[i + 1]
       IN  /\ sorted_headings' = run.headings
           /\ outline' = Append(outline, OutlineEntry(current))
           /\ fragments' = Append(fragments, SubSeq(sorted_headings, i + 1, run.j))
           /\ i' = run.j
    /\ UNCHANGED <<pc, doc, handle, ignored_texts, table_areas, page_num, all_lines,
                   style_counts, doc_title, title_line_ids, body_style,
                   page_0_has_paragraphs, initial_candidates, result>>
    /\ UNCHANGED batch_vars

\* line 317
ReturnOutline ==
    /\ pc = "merge"
    /\ ~(i < Len(sorted_headings))
    /\ result' = [title |-> doc_title, outline |-> outline]
    /\ pc' = "returned"
    /\ UNCHANGED <<doc, handle, ignored_texts, table_areas, page_num, all_lines,
                   style_counts, doc_title, title_line_ids, body_style,
                   page_0_has_paragraphs, initial_candidates, sorted_headings, i,
                   outline, fragments>>
    /\ UNCHANGED batch_vars

\* the locals of process_pdf before line 122
InitLocals ==
    /\ pc = "open"
    /\ handle = "none"
    /\ ignored_texts = {}
    /\ table_areas = <<>>
    /\ page_num = 0
    /\ all_lines = <<>>
    /\ style_counts = <<>>
    /\ doc_title = <<>>
    /\ title_line_ids = {}
    /\ body_style = <<10, FALSE>>
    /\ page_0_has_paragraphs = FALSE
    /\ initial_candidates = <<>>
    /\ sorted_headings = <<>>
    /\ i = 0
    /\ outline = <<>>
    /\ fragments = <<>>
    /\ result = NoResult

ProcessPdf ==
    \/ Open
    \/ OpenFails
    \/ DetectHeadersAndFooters
    \/ FindTables
    \/ FindTablesFails
    \/ ExtractPage
    \/ ReturnNoLines
    \/ IdentifyTitle
    \/ ExcludeTitleLines
    \/ DeduceBodyStyle
    \/ FilterInitialCandidates
    \/ ReturnNoCandidates
    \/ AssignLevels
    \/ MergeStep
    \/ ReturnOutline

-----------------------------------------------------------------------------
(* process_all_pdfs, lines 321-342 *)

DotPdf == <<".","p","d","f">>

\* line 329: filename.lower().endswith(".pdf")
IsPdfName(filename) ==
    LET t == Lower(filename)
    IN  Len(t) >= 4 /\ SubSeq(t, Len(t) - 3, Len(t)) = DotPdf

\* lines 334-335: os.path.splitext(filename)[0] + ".json", for a name that
\* ends in its extension
JsonOutputName(filename) ==
    LET dots == {k \in 1..Len(filename) : filename[k] = "."}
        base == IF dots = {} \/ SetMax(dots) = 1 THEN filename
                ELSE SubSeq(filename, 1, SetMax(dots) - 1)
    IN  base \o <<".","j","s","o","n">>

\* line 328 onwards: the next directory entry is not a PDF
BatchSkip ==
    /\ batch_pc = "loop"
    /\ file_idx < Len(files)
    /\ ~IsPdfName(files[file_idx + 1].name)
    /\ file_idx' = file_idx + 1
    /\ UNCHANGED <<doc, files, written, batch_pc>>
    /\ UNCHANGED pdf_vars

\* lines 329-337: process_pdf is entered on the next entry, with fresh locals
BatchCall ==
    /\ batch_pc = "loop"
    /\ file_idx < Len(files)
    /\ IsPdfName(files[file_idx + 1].name)
    /\ doc' = files[file_idx + 1].doc
    /\ batch_pc' = "in_call"
    /\ pc' = "open"
    /\ handle' = "none"
    /\ ignored_texts' = {}
    /\ table_areas' = <<>>
    /\ page_num' = 0
    /\ all_lines' = <<>>
    /\ style_counts' = <<>>
    /\ doc_title' = <<>>
    /\ title_line_ids' = {}
    /\ body_style' = <<10, FALSE>>
    /\ page_0_has_paragraphs' = FALSE
    /\ initial_candidates' = <<>>
    /\ sorted_headings' = <<>>
    /\ i' = 0
    /\ outline' = <<>>
    /\ fragments' = <<>>
    /\ result' = NoResult
    /\ UNCHANGED <<files, file_idx, written>>

\* lines 339-342: process_pdf returned, the output file is written
BatchWrite ==
    /\ batch_pc = "in_call"
    /\ pc = "returned"
    /\ written' = written \cup {JsonOutputName(files[file_idx + 1].name)}
    /\ file_idx' = file_idx + 1
    /\ batch_pc' = "loop"
    /\ pc' = "idle"
    /\ UNCHANGED <<doc, files, handle, ignored_texts, table_areas, page_num, all_lines,
                   style_counts, doc_title, title_line_ids, body_style,
                   page_0_has_paragraphs, initial_candidates, sorted_headings, i,
                   outline, fragments, result>>

\* line 337: process_pdf raised; nothing in process_all_pdfs catches it, the
\* loop is left
BatchPropagate ==
    /\ batch_pc = "in_call"
    /\ pc = "raised"
    /\ batch_pc' = "raised"
    /\ pc' = "idle"
    /\ UNCHANGED <<doc, files, file_idx, written, handle, ignored_texts, table_areas,
                   page_num, all_lines, style_counts, doc_title, title_line_ids,
                   body_style, page_0_has_paragraphs, initial_candidates,
                   sorted_headings, i, outline, fragments, result>>

\* line 328: the directory is exhausted
BatchDone ==
    /\ batch_pc = "loop"
    /\ ~(file_idx < Len(files))
    /\ batch_pc' = "done"
    /\ UNCHANGED <<doc, files, file_idx, written>>
    /\ UNCHANGED pdf_vars

ProcessAllPdfs ==
    \/ BatchSkip
    \/ BatchCall
    \/ BatchWrite
    \/ BatchPropagate
    \/ BatchDone

-----------------------------------------------------------------------------
(* Documents the model is run on.  Every page is 100 wide and 100 high.     *)

Regular == <<"H","e","l","v","e","t","i","c","a">>

Bold == <<"H","e","l","v","e","t","i","c","a","-","B","o","l","d">>

Black == <<"A","r","i","a","l","-","B","L","A","C","K">>

Fonts == {Regular, Bold}

\* texts of heading-like lines, by position
Words == << <<"A","l","p","h","a">>, <<"B","e","t","a">>, <<"G","a","m","m","a">>, <<"D","e","l","t","a">>, <<"O","m","e","g","a">> >>

BodyText == <<"b","o","d","y"," ","t","e","x","t">>

TitleText == <<"A","n","n","u","a","l"," ","R","e","p","o","r","t">>

DateText == <<"J","a","n"," ","2","0","2","4">>

PageOfText == <<"P","a","g","e"," ","3"," ","o","f"," ","1","0">>

BlankText == <<" ", " ">>

\* a paragraph of 30 words
Paragraph == JoinSpace([k \in 1..30 |-> <<"w","o","r","d">>])

\* horizontal extents: left half, centred, right half
XLeft == <<5, 45>>

XCentre == <<30, 70>>

XRight == <<55, 95>>

\* a line of one span, 10 high
PlainLine(x, y0, text, size_x2, font) ==
    Line(x[1], y0, x[2], y0 + 10, <<Span(text, font, size_x2)>>)

\* each line a block of its own
Blocks(lines) == [k \in 1..Len(lines) |-> Block(<<lines[k]>>)]

StdPage(blocks) == Page(100, 100, blocks, <<>>)

\* a page of one bold 14pt heading over a 10pt body line
ContentPage ==
    StdPage(Blocks(<<PlainLine(XLeft, 10, Words[5], 28, Bold),
                     PlainLine(XLeft, 40, BodyText, 20, Regular)>>))

\* a cover page: one bold, centred 24pt line
CoverPage == StdPage(Blocks(<<PlainLine(XCentre, 10, TitleText, 48, Bold)>>))

SeqsUpTo(S, n) == UNION {[1..k -> S] : k \in 1..n}

\* --- title pages: page 0 carries up to MaxTopLines lines from the top, each
\* --- a gap below the one before, and a paragraph; page 1 is a content page
MaxTopLines == 2

TopStyles == {<<48, Regular>>, <<48, Bold>>, <<28, Bold>>}

TopChoices == [gap : {0, 15, 40}, style : TopStyles, x : {XCentre, XRight}]

RECURSIVE TopLines(_, _, _)
TopLines(choices, k, y) ==
    IF k > Len(choices) THEN <<>>
    ELSE LET c == choices[k]
             y0 == IF k = 1 THEN 5 ELSE y + c.gap
         IN  <<PlainLine(c.x, y0, Words[k], c.style[1], c.style[2])>>
             \o TopLines(choices, k + 1, y0)

TitleDoc(choices) ==
    Document(
        <<StdPage(Blocks(TopLines(choices, 1, 0)
                         \o <<PlainLine(<<5, 95>>, 70, Paragraph, 20, Regular)>>)),
          ContentPage>>,
        "none")

TitleDocs ==
    {TitleDoc(c) : c \in {c \in SeqsUpTo(TopChoices, MaxTopLines) : c[1].gap = 0}}

\* --- single-line documents: one page, one line
SingleLine(x, y0, text, size_x2, font, two_spans) ==
    Line(x[1], y0, x[2], y0 + 10,
         IF two_spans
         THEN <<Span(<<"A", " ">>, IF font = Regular THEN Bold ELSE Regular, size_x2),
                Span(text, font, size_x2)>>
         ELSE <<Span(text, font, size_x2)>>)

SingleDocs ==
    {Document(<<Page(100, 100,
                     <<Block(<<SingleLine(x, y0, text, size_x2, font, two_spans)>>)>>,
                     IF in_table THEN << <<0, 0, 100, 100>> >> ELSE <<>>)>>,
              "none") :
        x \in {XLeft, XCentre, XRight}, y0 \in {10, 60},
        text \in {TitleText, DateText, PageOfText, Paragraph, BlankText},
        size_x2 \in {48, 49, 20}, font \in {Regular, Bold, Black},
        two_spans \in BOOLEAN, in_table \in BOOLEAN}

\* --- heading levels: page 1 carries up to MaxHeadings lines, 15 apart, of
\* --- styles drawn from LevelStyles, over two body lines
MaxHeadings == 4

LevelStyles == {<<36, Bold>>, <<36, Regular>>, <<28, Bold>>, <<24, Bold>>}

LevelDoc(styles) ==
    Document(
        <<CoverPage,
          StdPage(Blocks([k \in 1..Len(styles) |->
                             PlainLine(XLeft, 15 * k - 10, Words[((k - 1) % 5) + 1],
                                       styles[k][1], styles[k][2])]
                         \o <<PlainLine(XLeft, 15 * Len(styles) + 5, BodyText, 20, Regular),
                              PlainLine(XLeft, 15 * Len(styles) + 20, BodyText, 20, Regular)>>))>>,
        "none")

LevelDocs == {LevelDoc(st) : st \in SeqsUpTo(LevelStyles, MaxHeadings)}

\* --- fragments: page 1 carries up to MaxFragments heading lines, each a gap
\* --- below the bottom edge of the one before; the last one in the left
\* --- column, in the right column, or on the next page
MaxFragments == 3

FragmentChoices == [gap : {-8, 2, 6}, style : {<<28, Bold>>, <<24, Bold>>}]

RECURSIVE FragmentLines(_, _, _, _)
FragmentLines(choices, k, y, last_x) ==
    IF k > Len(choices) THEN <<>>
    ELSE LET c == choices[k]
             y0 == IF k = 1 THEN 5 ELSE y + 10 + c.gap
             x == IF k = Len(choices) THEN last_x ELSE XLeft
         IN  <<PlainLine(x, y0, Words[((k - 1) % 5) + 1], c.style[1], c.style[2])>>
             \o FragmentLines(choices, k + 1, y0, last_x)

BodyLines == <<PlainLine(XLeft, 80, BodyText, 20, Regular),
               PlainLine(XRight, 80, BodyText, 20, Regular)>>

FragmentDoc(choices, last) ==
    LET lines == FragmentLines(choices, 1, 0, IF last = "right" THEN XRight ELSE XLeft)
        n == Len(lines)
    IN  Document(
            IF last = "next_page" /\ n > 1
            THEN <<CoverPage,
                   StdPage(Blocks(SubSeq(lines, 1, n - 1) \o BodyLines)),
                   StdPage(Blocks(<<lines[n]>> \o BodyLines))>>
            ELSE <<CoverPage, StdPage(Blocks(lines \o BodyLines))>>,
            "none")

FragmentDocs ==
    {FragmentDoc(c, last) :
        c \in {c \in SeqsUpTo(FragmentChoices, MaxFragments) : c[1].gap = 2},
        last \in {"left", "right", "next_page"}}

\* --- running headers: 3..MaxPages pages, each with a body line and the
\* --- header text no times, once, or twice (top and bottom)
MaxPages == 5

HeaderText == <<"A","c","m","e"," ","C","o","r","p">>

ShortHeaderText == <<"A","c","m","e">>

SentenceHeaderText == <<"A","c","m","e"," ","C","o","r","p",".">>

HeaderLine(y0, text) == PlainLine(XCentre, y0, text, 24, Bold)

\* the header blocks of a page
HeaderBlocks(kind, times) ==
    LET top == IF kind = "outside_band" THEN 30 ELSE 5
        bottom == IF kind = "outside_band" THEN 55 ELSE 88
        text == CASE kind = "short" -> ShortHeaderText
                  [] kind = "sentence" -> SentenceHeaderText
                  [] OTHER -> HeaderText
        block(y0) ==
            IF kind = "two_lines"
            THEN Block(<<HeaderLine(y0, text),
                         Line(30, y0 + 1, 70, y0 + 11, <<Span(Words[1], Bold, 24)>>)>>)
            ELSE Block(<<HeaderLine(y0, text)>>)
    IN  IF times = 0 THEN <<>>
        ELSE IF times = 1 THEN <<block(top)>>
        ELSE <<block(top), block(bottom)>>

HeaderDoc(kind, times) ==
    Document([p \in 1..Len(times) |->
                 StdPage(HeaderBlocks(kind, times[p])
                         \o Blocks(<<PlainLine(XLeft, 42, BodyText, 20, Regular)>>))],
             "none")

HeaderDocs ==
    {HeaderDoc(kind, times) :
        kind \in {"plain", "short", "sentence", "two_lines", "outside_band"},
        times \in {t \in UNION {[1..n -> 0..2] : n \in 3..MaxPages} :
                      t[1] < 2 /\ t[Len(t)] < 2}}

\* --- tables: page 1 carries up to MaxTableLines heading lines in, across or
\* --- outside the table boxes found on page 0 or page 1
MaxTableLines == 2

TableBoxA == <<10, 15, 70, 50>>

TableBoxB == <<5, 65, 60, 90>>

LineBoxes == {<<20, 20, 60, 30>>, <<20, 35, 90, 45>>, <<10, 70, 50, 80>>, <<10, 15, 70, 25>>}

TableDoc(boxes, tables) ==
    LET lines == [k \in 1..Len(boxes) |->
                     Line(boxes[k][1], boxes[k][2], boxes[k][3], boxes[k][4],
                          <<Span(Words[k], Bold, 28)>>)]
    IN  Document(
            <<Page(100, 100, CoverPage.blocks, tables[1]),
              Page(100, 100,
                   Blocks(lines \o <<PlainLine(XLeft, 92, BodyText, 20, Regular)>>),
                   tables[2])>>,
            "none")

TableDocs ==
    {TableDoc(b, t) :
        b \in SeqsUpTo(LineBoxes, MaxTableLines),
        t \in { << <<>>, <<>> >>,
                << <<>>, <<TableBoxA>> >>,
                << <<TableBoxA, TableBoxB>>, <<>> >>,
                << <<>>, <<TableBoxB, TableBoxA>> >> }}

\* --- documents the provider fails on
FaultyDocs ==
    {Document(<<CoverPage, ContentPage>>, fault) : fault \in {"open", "find_tables"}}

Docs ==
    TitleDocs \cup SingleDocs \cup LevelDocs \cup FragmentDocs \cup HeaderDocs
        \cup TableDocs \cup FaultyDocs

\* process_pdf called on one document
Init ==
    /\ doc \in Docs
    /\ InitLocals
    /\ files = <<>>
    /\ file_idx = 0
    /\ written = {}
    /\ batch_pc = "none"

Next == ProcessPdf

Spec == Init /\ [][Next]_vars

\* --- directories: up to MaxFiles entries, in any listing order
MaxFiles == 2

DirEntries ==
    { [name |-> <<"n","o","t","e","s",".","t","x","t">>, doc |-> Document(<<CoverPage>>, "none")],
      [name |-> <<"a",".","p","d","f">>, doc |-> Document(<<CoverPage, ContentPage>>, "none")],
      [name |-> <<"B",".","P","D","F">>, doc |-> Document(<<StdPage(<<>>)>>, "none")],
      [name |-> <<"c",".","p","d","f">>, doc |-> Document(<<CoverPage>>, "none")],
      [name |-> <<"d",".","p","d","f">>, doc |-> Document(<<CoverPage, ContentPage>>, "open")],
      [name |-> <<"e",".","v","2",".","p","d","f">>, doc |-> Document(<<CoverPage, ContentPage>>, "find_tables")] }

Directories ==
    {d \in SeqsUpTo(DirEntries, MaxFiles) :
        \A a, b \in 1..Len(d) : a # b => d[a].name # d[b].name}

\* process_all_pdfs called on a directory
InitBatch ==
    /\ files \in Directories
    /\ file_idx = 0
    /\ written = {}
    /\ batch_pc = "loop"
    /\ doc = Document(<<>>, "none")
    /\ pc = "idle"
    /\ handle = "none"
    /\ ignored_texts = {}
    /\ table_areas = <<>>
    /\ page_num = 0
    /\ all_lines = <<>>
    /\ style_counts = <<>>
    /\ doc_title = <<>>
    /\ title_line_ids = {}
    /\ body_style = <<10, FALSE>>
    /\ page_0_has_paragraphs = FALSE
    /\ initial_candidates = <<>>
    /\ sorted_headings = <<>>
    /\ i = 0
    /\ outline = <<>>
    /\ fragments = <<>>
    /\ result = NoResult

NextBatch == ProcessPdf \/ ProcessAllPdfs

SpecBatch == InitBatch /\ [][NextBatch]_vars

-----------------------------------------------------------------------------
(* Properties *)

\* the lines merged into the outline so far, in the order of the merge walk
MergedLines == Concat(fragments)

\* process_pdf has returned an outline through line 317
WalkDone == pc = "returned" /\ initial_candidates # <<>>

\* the order of the claim on styles: larger size first, bold before non-bold
\* at equal size
RanksAbove(s, t) == s[1] > t[1] \/ (s[1] = t[1] /\ s[2] = TRUE /\ t[2] = FALSE)

LevelNumber(level) == CHOOSE k \in 1..3 : LevelNames[k] = level

\* C1 (title exclusivity): no line whose id was put in title_line_ids is an
\* outline entry or a fragment merged into one, and the returned outline is
\* the one built from those fragments.
C1_TitleExclusivity ==
    /\ \A k \in 1..Len(fragments) : \A m \in 1..Len(fragments[k]) :
           fragments[k][m].id \notin title_line_ids
    /\ Len(fragments) = Len(outline)
    /\ WalkDone => result.outline = outline

\* C1 witness: a returned outline with an entry on page 0, in a document
\* whose title took lines of page 0.
C1_Witness ==
    /\ WalkDone
    /\ title_line_ids # {}
    /\ \E k \in 1..Len(result.outline) : result.outline[k].page = 0

\* a line of page p (0-based) with this stripped text lies in the header or
\* footer band
LineInBand(d, p, text) ==
    LET page == d.pages[p + 1]
        lines == GetTextLines(page)
    IN  \E k \in 1..Len(lines) :
            /\ Strip(SpanTexts(lines[k])) = text
            /\ \/ 100 * lines[k].bbox[2] < 20 * page.height
               \/ 100 * lines[k].bbox[4] > 85 * page.height

\* a block of page p (0-based) with this normalized text lies in the band
BlockInBand(d, p, text) ==
    LET page == d.pages[p + 1]
        blocks == GetTextBlocks(page)
    IN  \E k \in 1..Len(blocks) :
            /\ ReplaceNewlines(Strip(blocks[k].text)) = text
            /\ \/ 100 * blocks[k].y0 < 20 * page.height
               \/ 100 * blocks[k].y1 > 85 * page.height

\* the stripped texts of the lines of the document
LineTexts(d) ==
    UNION {{Strip(SpanTexts(GetTextLines(d.pages[p])[k])) :
               k \in 1..Len(GetTextLines(d.pages[p]))} : p \in 1..Len(d.pages)}

MiddlePages(d) ==
    {p \in 0..(Len(d.pages) - 1) :
        p >= Len(d.pages) \div 4 /\ p < Len(d.pages) - Len(d.pages) \div 4}

AtLeast40Percent(count, d) == 10 * count >= 4 * Cardinality(MiddlePages(d))

\* C2 as claimed: in a document of at least 4 pages, a line text found in the
\* band on at least 40% of the scanned pages is on no admitted line.
C2_AsClaimed ==
    \A text \in LineTexts(doc) :
        ( /\ Len(doc.pages) >= 4
          /\ AtLeast40Percent(
                 Cardinality({p \in MiddlePages(doc) : LineInBand(doc, p, text)}), doc) )
        => \A k \in 1..Len(all_lines) : all_lines[k].text # text

\* C2 amended: in a document of at least 4 pages, a line whose stripped text
\* is the whole normalized text of a block in the band on at least 40% of the
\* scanned pages, is 6 to 99 characters long and does not end in a full stop,
\* is on no admitted line of any page, and so in no title and no outline.
C2_HeaderFooterRemoval ==
    \A text \in LineTexts(doc) :
        ( /\ Len(doc.pages) >= 4
          /\ Len(text) >= 6 /\ Len(text) <= 99 /\ text[Len(text)] # "."
          /\ AtLeast40Percent(
                 Cardinality({p \in MiddlePages(doc) : BlockInBand(doc, p, text)}), doc) )
        => /\ \A k \in 1..Len(all_lines) : all_lines[k].text # text
           /\ \A k \in 1..Len(MergedLines) : MergedLines[k].text # text
           /\ doc_title # text

\* C2 witness: the walk of a document of at least 4 pages is over, a repeated
\* header text was detected, and the text also stands on a page outside the
\* scanned range.
C2_Witness ==
    /\ pc = "returned"
    /\ Len(doc.pages) >= 4
    /\ all_lines # <<>>
    /\ \E text \in ignored_texts :
          /\ AtLeast40Percent(
                 Cardinality({p \in MiddlePages(doc) : BlockInBand(doc, p, text)}), doc)
          /\ \E p \in (0..(Len(doc.pages) - 1)) \ MiddlePages(doc) : LineInBand(doc, p, text)

\* the sum of the counts of a Counter
RECURSIVE CounterTotal(_)
CounterTotal(c) == IF Len(c) = 0 THEN 0 ELSE c[1].n + CounterTotal(Tail(c))

\* C3 (table exclusion): no admitted line, and no line merged into the
\* outline, lies inside a table box of its page, and while the pages are read
\* the style counts count the admitted lines and no other.
C3_TableExclusion ==
    /\ \A k \in 1..Len(all_lines) :
           \A t \in Range(doc.pages[all_lines[k].page + 1].tables) :
               ~( /\ all_lines[k].x0 >= t[1] /\ all_lines[k].y0 >= t[2]
                  /\ all_lines[k].x1 <= t[3] /\ all_lines[k].y1 <= t[4] )
    /\ \A k \in 1..Len(MergedLines) :
           \A t \in Range(doc.pages[MergedLines[k].page + 1].tables) :
               ~( /\ MergedLines[k].x0 >= t[1] /\ MergedLines[k].y0 >= t[2]
                  /\ MergedLines[k].x1 <= t[3] /\ MergedLines[k].y1 <= t[4] )
    /\ pc \in {"extract", "extracted"} => CounterTotal(style_counts) = Len(all_lines)

\* C3 witness: an outline was returned for a document with a line inside a
\* table box of its page and a line outside one.
C3_Witness ==
    /\ WalkDone
    /\ Len(outline) > 0
    /\ \E p \in 1..Len(doc.pages) :
          /\ Len(doc.pages[p].tables) > 0
          /\ \E k \in 1..Len(GetTextLines(doc.pages[p])) :
                \E t \in Range(doc.pages[p].tables) :
                    /\ GetTextLines(doc.pages[p])[k].bbox[1] >= t[1]
                    /\ GetTextLines(doc.pages[p])[k].bbox[2] >= t[2]
                    /\ GetTextLines(doc.pages[p])[k].bbox[3] <= t[3]
                    /\ GetTextLines(doc.pages[p])[k].bbox[4] <= t[4]
          /\ \E k \in 1..Len(all_lines) : all_lines[k].page = p - 1

\* the outline entry (1-based) that holds position j of MergedLines
EntryOf(j) ==
    CHOOSE k \in 1..Len(fragments) :
        LET before == Len(Concat(SubSeq(fragments, 1, k - 1)))
        IN  before < j /\ j <= before + Len(fragments[k])

SameRunKeys(a, b) == a.page = b.page /\ a.column = b.column /\ a.style = b.style

\* every outline entry is its fragments' texts joined by single spaces, with
\* page and level of the first fragment
EntriesAreJoins ==
    \A k \in 1..Len(outline) :
        /\ outline[k].text = JoinSpace([m \in 1..Len(fragments[k]) |-> fragments[k][m].text])
        /\ outline[k].page = fragments[k][1].page
        /\ outline[k].level = fragments[k][1].level

\* C4 as claimed: two entries adjacent in the sort order with the same page,
\* column and style, whose gap next.y0 - previous.y1 is less than 0.5 * size,
\* are in one outline entry.
C4_AsClaimed ==
    WalkDone =>
        /\ EntriesAreJoins
        /\ \A j \in 1..(Len(MergedLines) - 1) :
              ( /\ SameRunKeys(MergedLines[j], MergedLines[j + 1])
                /\ 2 * (MergedLines[j + 1].y0 - MergedLines[j].y1) < MergedLines[j].size )
              => EntryOf(j) = EntryOf(j + 1)

\* C4 amended: two entries adjacent in the sort order with the same page,
\* column and style, whose gap in absolute value |next.y0 - previous.y1| is
\* less than 0.5 * size, are in one outline entry, whose text is its
\* fragments' texts joined by single spaces in sort order, with page and
\* level of the first fragment.
C4_MergeNonFragmentation ==
    WalkDone =>
        /\ EntriesAreJoins
        /\ MergedLines = Sorted(MergedLines, ReadingOrderLess)
        /\ \A j \in 1..(Len(MergedLines) - 1) :
              ( /\ SameRunKeys(MergedLines[j], MergedLines[j + 1])
                /\ 2 * Abs(MergedLines[j + 1].y0 - MergedLines[j].y1) < MergedLines[j].size )
              => EntryOf(j) = EntryOf(j + 1)

\* C4 witness: a returned outline with an entry made of three fragments.
C4_Witness ==
    /\ WalkDone
    /\ \E k \in 1..Len(fragments) : Len(fragments[k]) = 3

\* C5 (level monotonicity): an entry whose style ranks above another's never
\* has the greater level number; every level is H1, H2 or H3; no line whose
\* style ranks behind three other candidate styles is in the outline.
C5_LevelMonotonicity ==
    /\ \A a, b \in 1..Len(outline) :
           RanksAbove(fragments[a][1].style, fragments[b][1].style)
               => LevelNumber(outline[a].level) <= LevelNumber(outline[b].level)
    /\ \A a \in 1..Len(outline) : outline[a].level \in {"H1", "H2", "H3"}
    /\ \A k \in 1..Len(MergedLines) :
           Cardinality({s \in {initial_candidates[m].style : m \in 1..Len(initial_candidates)} :
                           RanksAbove(s, MergedLines[k].style)}) < 3

\* C5 witness: a returned outline with entries of all three levels, one of
\* them bold at the size of a non-bold other, and a candidate of a fourth style.
C5_Witness ==
    /\ WalkDone
    /\ {outline[k].level : k \in 1..Len(outline)} = {"H1", "H2", "H3"}
    /\ \E a, b \in 1..Len(outline) :
          /\ fragments[a][1].size = fragments[b][1].size
          /\ fragments[a][1].is_bold /\ ~fragments[b][1].is_bold
    /\ Cardinality({initial_candidates[m].style : m \in 1..Len(initial_candidates)}) > 3

\* the scenario of C6: one page whose only text is one line, every span 24pt,
\* centred within a tenth of the page width, starting in the top half, not
\* blank and shorter than a paragraph
TheLine(d) == d.pages[1].blocks[1].lines[1]

IsTitlePageScenario(d) ==
    /\ Len(d.pages) = 1
    /\ Len(d.pages[1].blocks) = 1
    /\ Len(d.pages[1].blocks[1].lines) = 1
    /\ Len(TheLine(d).spans) > 0
    /\ \A k \in 1..Len(TheLine(d).spans) : TheLine(d).spans[k].size_x2 = 48
    /\ 10 * Abs(TheLine(d).bbox[1] + TheLine(d).bbox[3] - d.pages[1].width)
           < 2 * d.pages[1].width
    /\ 2 * TheLine(d).bbox[2] < d.pages[1].height
    /\ Strip(SpanTexts(TheLine(d))) # <<>>
    /\ WordCount(SpanTexts(TheLine(d))) < 30

\* C6 as claimed: in the scenario the title is the line's text and the
\* outline is empty, bold or not.
C6_AsClaimed ==
    (pc = "returned" /\ IsTitlePageScenario(doc)) =>
        /\ result.title = Strip(SpanTexts(TheLine(doc)))
        /\ result.outline = <<>>

\* the line is kept by the noise filter: outside every table box of the page,
\* no date line, no "Page N of M" line
IsKeptLine(d) ==
    /\ \A t \in Range(d.pages[1].tables) :
           ~( /\ TheLine(d).bbox[1] >= t[1] /\ TheLine(d).bbox[2] >= t[2]
              /\ TheLine(d).bbox[3] <= t[3] /\ TheLine(d).bbox[4] <= t[4] )
    /\ ~IsDateLine(Strip(SpanTexts(TheLine(d))))
    /\ ~IsPageOfLine(Strip(SpanTexts(TheLine(d))))

\* the characters of the line in bold fonts (bold = TRUE) or in others
BoldChars(line, bold) ==
    CounterTotal([k \in 1..Len(line.spans) |->
        [key |-> k,
         n |-> IF IsBoldFont(line.spans[k].font) = bold
               THEN Len(Strip(line.spans[k].text)) ELSE 0]])

\* most of the line's characters are in a bold font
IsMostlyBold(line) == BoldChars(line, TRUE) > BoldChars(line, FALSE)

\* most of the line's characters are in a font that is not bold
IsMostlyPlain(line) == BoldChars(line, FALSE) > BoldChars(line, TRUE)

\* C6 amended: in the scenario, when the line is kept by the noise filter, the
\* outline is empty and the title is the line's text if most of the line is
\* bold, and the empty string if most of it is not.
C6_TitlePage ==
    (pc = "returned" /\ IsTitlePageScenario(doc) /\ IsKeptLine(doc)) =>
        /\ result.outline = <<>>
        /\ IsMostlyBold(TheLine(doc)) => result.title = Strip(SpanTexts(TheLine(doc)))
        /\ IsMostlyPlain(TheLine(doc)) => result.title = <<>>

\* C6 witness: the scenario with a bold line, returned with its title.
C6_Witness ==
    /\ pc = "returned"
    /\ IsTitlePageScenario(doc)
    /\ IsKeptLine(doc)
    /\ IsMostlyBold(TheLine(doc))
    /\ result.title # <<>>

\* C7 as claimed: once process_pdf is left, by return or by exception, a
\* handle that was obtained is closed.
C7_HandleReleased ==
    pc \in {"returned", "raised"} => handle # "open"

\* C8 as claimed: when process_all_pdfs is over, every PDF of the directory
\* that process_pdf does not fail on has its output file written.
C8_BatchIsolation ==
    batch_pc \in {"done", "raised"} =>
        \A k \in 1..Len(files) :
            (IsPdfName(files[k].name) /\ files[k].doc.fault = "none")
                => JsonOutputName(files[k].name) \in written

\* the number of retained lines of a style
RetainedCount(style) ==
    Cardinality({k \in 1..Len(all_lines) : all_lines[k].style = style})

RetainedStyles == {all_lines[k].style : k \in 1..Len(all_lines)}

\* C9 as claimed: the body style is a most frequent non-bold style of the
\* retained lines, or without a non-bold one a most frequent style of them,
\* or (10, non-bold) when no line is retained.
C9_BodyStyleFromRetained ==
    pc = "candidates" =>
        LET non_bold == {s \in RetainedStyles : ~s[2]}
            pool == IF non_bold # {} THEN non_bold ELSE RetainedStyles
        IN  IF pool = {} THEN body_style = <<10, FALSE>>
            ELSE /\ body_style \in pool
                 /\ \A s \in pool : RetainedCount(s) <= RetainedCount(body_style)

\* the scanned pages on which a block with this text is counted
PagesCounted(d, text) ==
    {p \in MiddlePages(d) :
        BlockInBand(d, p, text) /\ 5 < Len(text) /\ Len(text) < 100 /\ text[Len(text)] # "."}

\* C10 as claimed: a text is in the ignore set exactly when the number of
\* scanned pages it is counted on is at least 0.4 times the number of
\* scanned pages.
C10_ThresholdCountsPages ==
    (pc \notin {"open", "detect", "idle"} /\ Len(doc.pages) >= 4) =>
        \A text \in BlockTexts(doc) :
            text \in ignored_texts
                <=> ( /\ PagesCounted(doc, text) # {}
                      /\ AtLeast40Percent(Cardinality(PagesCounted(doc, text)), doc) )

=============================================================================
